---- MODULE Spec2Model ----
(***************************************************************************)
(* Model of main.py: the Reference Parser (parse_action_string) and the    *)
(* Release Resolver (get_latest_release).                                  *)
(*                                                                         *)
(* Python strings are sequences of one-character strings, so that strip,   *)
(* startswith, slicing, the regular expression and int() are computed      *)
(* character by character. Python dicts are functions whose DOMAIN is the  *)
(* set of keys present.                                                    *)
(***************************************************************************)
EXTENDS Integers, Sequences, FiniteSets, TLC

VARIABLES
    raw,        \* parse_action_string: the argument action_string
    parsed,     \* parse_action_string: what the call produced (or Pending)
    normalised, \* the strings got by applying the normalisation step to raw, again and again
    parsed_labelled,
                \* parse_action_string: what the call on "uses: " + raw produced (or Pending)
    workflow_file_exists,
                \* extract_actions_from_workflow: open(workflow_file) finds the file
    content,    \* extract_actions_from_workflow: the text of the workflow file
    actions,    \* extract_actions_from_workflow: the list returned (None before the call)
    source,     \* main: where the references come from (action, file, workflow, stdin, piped)
    json_output,
                \* main: args.json
    file_exists,
                \* process_file, process_file_json: open(file_path) finds the file
    lines,      \* the references of the input, in input order
    index,      \* how many of them the loop has taken
    pc,         \* main: where the run stands (start, loop, resolving, done)
    results,    \* process_file, process_workflow: the list results
    mapping,    \* the dict results of the structured mode: (key, value) pairs, in insertion order
    returns,    \* what the calls of process_action and process_action_for_json returned, in order
    stdout,     \* what was printed to sys.stdout, in order
    stderr,     \* the messages printed to sys.stderr (which ones, not how often)
    json_error_is_request_exception,
                \* the installed requests: is response.json()'s error a RequestException
    attempt,    \* get_latest_release: the loop variable of `for attempt in range(max_retries)`
    events,     \* get_latest_release: the requests.get and time.sleep calls made, in order
    outcome,    \* get_latest_release: "idle", "running", "returned" or "raised"
    result      \* get_latest_release: the value returned (None while running)

vars == <<raw, parsed, normalised, parsed_labelled, workflow_file_exists, content, actions,
          source, json_output, file_exists, lines, index, pc, results, mapping, returns,
          stdout, stderr,
          json_error_is_request_exception, attempt, events, outcome, result>>

parserVars == <<raw, parsed>>

resolverVars == <<json_error_is_request_exception, attempt, events, outcome, result, stderr>>

mainVars == <<source, json_output, file_exists, lines, index, pc, results, mapping, returns,
              stdout>>

workflowVars == <<workflow_file_exists, content, actions>>

\* What get_latest_release does not touch.
callerVars == <<parserVars, normalised, parsed_labelled, workflowVars, mainVars>>

-----------------------------------------------------------------------------
(* Bounds of the model. *)

\* Input strings of the parser are concatenations of at most MaxPieces pieces.
MaxPieces == 4

\* Workflow texts are concatenations of at most MaxWorkflowPieces pieces.
MaxWorkflowPieces == 5

\* An input (file, standard input) holds at most MaxRefs lines.
MaxRefs == 2

\* Release listings hold at most MaxListing entries.
MaxListing == 2

-----------------------------------------------------------------------------
(* Python values. *)

\* Python's None where a string is expected: a one-element sequence whose
\* element is not a character, so it differs from every string.
None == <<"None">>

\* str.strip()'s whitespace, as far as the inputs use it.
IsSpace(c) == c \in {" ", "\n", "\t", "\r"}

\* The characters of s from index i to index j (empty when i > j): s[i-1:j].
Slice(s, i, j) == SubSeq(s, i, j)

\* Number of leading whitespace characters of s.
RECURSIVE LeadingSpaces(_)
LeadingSpaces(s) ==
    IF s = <<>> \/ ~IsSpace(Head(s)) THEN 0 ELSE 1 + LeadingSpaces(Tail(s))

\* Number of trailing whitespace characters of s.
RECURSIVE TrailingSpaces(_)
TrailingSpaces(s) ==
    IF s = <<>> \/ ~IsSpace(s[Len(s)]) THEN 0
    ELSE 1 + TrailingSpaces(Slice(s, 1, Len(s) - 1))

\* Strip with the trailing whitespace kept (str.lstrip in place of str.strip).
StripLeadingOnly(s) == Slice(s, LeadingSpaces(s) + 1, Len(s))

\* str.strip(): s without its leading and trailing whitespace.
Strip(s) ==
    LET l == LeadingSpaces(s)
    IN  IF l = Len(s) THEN <<>>
        ELSE Slice(s, l + 1, Len(s) - TrailingSpaces(s))

\* str.startswith(p).
StartsWith(s, p) == Len(s) >= Len(p) /\ Slice(s, 1, Len(p)) = p

\* Index of the first occurrence of character c in s, or 0 when there is none.
IndexOf(s, c) ==
    IF \E i \in 1..Len(s) : s[i] = c
    THEN CHOOSE i \in 1..Len(s) : s[i] = c /\ \A j \in 1..(i - 1) : s[j] # c
    ELSE 0

\* Python's order on strings: lexicographic by code point.
CharCode(c) ==
    CASE c = "\t" -> 9
      [] c = "\n" -> 10
      [] c = "\r" -> 13
      [] c = " " -> 32
      [] c = "+" -> 43
      [] c = "-" -> 45
      [] c = "." -> 46
      [] c = "/" -> 47
      [] c = "0" -> 48
      [] c = "1" -> 49
      [] c = "2" -> 50
      [] c = "3" -> 51
      [] c = "4" -> 52
      [] c = "5" -> 53
      [] c = "6" -> 54
      [] c = "7" -> 55
      [] c = "8" -> 56
      [] c = "9" -> 57
      [] c = ":" -> 58
      [] c = "@" -> 64
      [] c = "W" -> 87
      [] c = "a" -> 97
      [] c = "b" -> 98
      [] c = "d" -> 100
      [] c = "e" -> 101
      [] c = "s" -> 115
      [] c = "u" -> 117
      [] c = "v" -> 118

\* a > b for Python strings.
RECURSIVE StrGreater(_, _)
StrGreater(a, b) ==
    IF a = <<>> THEN FALSE
    ELSE IF b = <<>> THEN TRUE
    ELSE IF CharCode(Head(a)) # CharCode(Head(b))
         THEN CharCode(Head(a)) > CharCode(Head(b))
    ELSE StrGreater(Tail(a), Tail(b))

\* dict.get(key, default).
DictGet(d, key, default) == IF key \in DOMAIN d THEN d[key] ELSE default

-----------------------------------------------------------------------------
(* Reference Parser: parse_action_string. *)

UsesLabel == <<"u", "s", "e", "s", ":">>

\* is_local_workflow_reference(action).
is_local_workflow_reference(action) ==
    StartsWith(action, <<".", "/">>) \/ StartsWith(action, <<".", ".", "/">>)

\* The normalisation without the second strip: action_string[5:] kept as it is.
NormaliseNoRetrim(action_string) ==
    LET s == Strip(action_string)
    IN  IF StartsWith(s, UsesLabel) THEN Slice(s, 6, Len(s)) ELSE s

\* The normalisation with the label cut one character short: action_string[4:].
NormaliseShortSlice(action_string) ==
    LET s == Strip(action_string)
    IN  IF StartsWith(s, UsesLabel) THEN Strip(Slice(s, 5, Len(s))) ELSE s

\* The first two statements of parse_action_string: strip, drop a leading
\* "uses:" and strip again.
Normalise(action_string) ==
    LET s == Strip(action_string)
    IN  IF StartsWith(s, UsesLabel) THEN Strip(Slice(s, 6, Len(s))) ELSE s

\* Index of the last occurrence of character c in s, or 0 when there is none.
LastIndexOf(s, c) ==
    IF \E i \in 1..Len(s) : s[i] = c
    THEN CHOOSE i \in 1..Len(s) : s[i] = c /\ \A j \in (i + 1)..Len(s) : s[j] # c
    ELSE 0

\* A split on the last "@" that accepts whatever follows it (str.rpartition
\* in place of the regular expression).
ReMatchLastAt(s) ==
    LET at == LastIndexOf(s, "@")
        g1 == IF at = 0 THEN s ELSE Slice(s, 1, at - 1)
    IN  IF g1 = <<>>
        THEN [matched |-> FALSE, group1 |-> None, group2 |-> None]
        ELSE [matched |-> TRUE, group1 |-> g1,
              group2 |-> IF at = 0 THEN None ELSE Slice(s, at + 1, Len(s))]

\* re.match(r"^([^@]+)(?:@(.+))?$", s): [matched, group1, group2], where
\* group2 = None when the optional group took no part. "." matches every
\* character but "\n"; "$" matches at the end and before a final "\n".
ReMatch(s) ==
    LET at   == IndexOf(s, "@")
        g1   == IF at = 0 THEN s ELSE Slice(s, 1, at - 1)
        rest == IF at = 0 THEN <<>> ELSE Slice(s, at + 1, Len(s))
        nl   == IndexOf(rest, "\n")
        g2   == IF nl = 0 THEN rest ELSE Slice(rest, 1, nl - 1)
        fail == [matched |-> FALSE, group1 |-> None, group2 |-> None]
    IN  IF g1 = <<>> THEN fail
        ELSE IF at = 0 THEN [matched |-> TRUE, group1 |-> g1, group2 |-> None]
        ELSE IF g2 # <<>> /\ (nl = 0 \/ nl = Len(rest))
             THEN [matched |-> TRUE, group1 |-> g1, group2 |-> g2]
        ELSE fail

Pending == [status |-> "pending", repo |-> None, version |-> None]

LocalError == [status |-> "ValueError: Local workflow reference not supported",
               repo |-> None, version |-> None]

FormatError == [status |-> "ValueError: Invalid action format",
                repo |-> None, version |-> None]

\* parse_action_string with the format check made before the local-reference check.
parse_action_string_format_first(action_string) ==
    LET s == Normalise(action_string)
        m == ReMatch(s)
    IN  IF ~m.matched THEN FormatError
        ELSE IF is_local_workflow_reference(s) THEN LocalError
        ELSE [status  |-> "ok",
              repo    |-> m.group1,
              version |-> IF m.group2 # None /\ m.group2 # <<>>
                          THEN m.group2 ELSE None]

\* parse_action_string(action_string): the pair returned, or the ValueError raised.
parse_action_string(action_string) ==
    LET s == Normalise(action_string)
        m == ReMatch(s)
    IN  IF is_local_workflow_reference(s) THEN LocalError
        ELSE IF ~m.matched THEN FormatError
        ELSE [status  |-> "ok",
              repo    |-> m.group1,
              version |-> IF m.group2 # None /\ m.group2 # <<>>
                          THEN m.group2 ELSE None]

\* The pieces input strings are built from.
Pieces ==
    { <<" ">>, <<"\n">>, UsesLabel, <<"@">>, <<".", "/">>, <<".", ".", "/">>,
      <<"a", "/", "b">>, <<"v", "1">> }

\* All concatenations of at most n pieces.
RECURSIVE Concats(_)
Concats(n) ==
    IF n = 0 THEN { <<>> }
    ELSE LET shorter == Concats(n - 1)
         IN  shorter \cup { s \o p : s \in shorter, p \in Pieces }

Inputs == Concats(MaxPieces)

\* main is not running: a function is called on its own.
NoMain ==
    /\ source = "none"
    /\ json_output = FALSE
    /\ file_exists = FALSE
    /\ lines = <<>>
    /\ index = 0
    /\ pc = "none"
    /\ results = <<>>
    /\ mapping = <<>>
    /\ returns = <<>>
    /\ stdout = <<>>

\* No workflow file is read.
NoWorkflow ==
    /\ workflow_file_exists = FALSE
    /\ content = <<>>
    /\ actions = None

\* No call of get_latest_release is under way.
ResolverIdle ==
    /\ json_error_is_request_exception = TRUE
    /\ attempt = 0
    /\ events = <<>>
    /\ outcome = "idle"
    /\ result = None
    /\ stderr = {}

\* A call parse_action_string(raw).
ParseAction ==
    /\ parsed = Pending
    /\ parsed' = parse_action_string(raw)
    /\ UNCHANGED <<raw, normalised, parsed_labelled, workflowVars, mainVars, resolverVars>>

\* A call parse_action_string("uses: " + raw).
ParseLabelled ==
    /\ parsed_labelled = Pending
    /\ parsed_labelled' = parse_action_string(UsesLabel \o <<" ">> \o raw)
    /\ UNCHANGED <<raw, parsed, normalised, workflowVars, mainVars, resolverVars>>

InitParse ==
    /\ raw \in Inputs
    /\ parsed = Pending
    /\ parsed_labelled = Pending
    /\ normalised = <<>>
    /\ NoWorkflow
    /\ NoMain
    /\ ResolverIdle

NextParse == ParseAction \/ ParseLabelled

SpecParse == InitParse /\ [][NextParse]_vars

\* The normalisation step applied once more: to raw, then to its own result.
NormaliseStep ==
    /\ Len(normalised) < 2
    /\ normalised' = Append(normalised,
                            Normalise(IF normalised = <<>> THEN raw
                                      ELSE normalised[Len(normalised)]))
    /\ UNCHANGED <<raw, parsed, parsed_labelled, workflowVars, mainVars, resolverVars>>

InitNormalise ==
    /\ raw \in Inputs
    /\ parsed = Pending
    /\ parsed_labelled = Pending
    /\ normalised = <<>>
    /\ NoWorkflow
    /\ NoMain
    /\ ResolverIdle

NextNormalise == NormaliseStep

SpecNormalise == InitNormalise /\ [][NextNormalise]_vars

-----------------------------------------------------------------------------
(* Workflow scan: extract_actions_from_workflow. *)

\* Number of characters of s from index pos on that are whitespace: \s*.
RECURSIVE SpaceRun(_, _)
SpaceRun(s, pos) ==
    IF pos > Len(s) \/ ~IsSpace(s[pos]) THEN 0 ELSE 1 + SpaceRun(s, pos + 1)

\* Number of characters of s from index pos on that are neither "@" nor
\* whitespace: [^@\s]+ takes as many as there are.
RECURSIVE HeadRun(_, _)
HeadRun(s, pos) ==
    IF pos > Len(s) \/ s[pos] = "@" \/ IsSpace(s[pos]) THEN 0
    ELSE 1 + HeadRun(s, pos + 1)

\* Number of characters of s from index pos on that are not whitespace: [^\s]+.
RECURSIVE NonSpaceRun(_, _)
NonSpaceRun(s, pos) ==
    IF pos > Len(s) \/ IsSpace(s[pos]) THEN 0 ELSE 1 + NonSpaceRun(s, pos + 1)

\* The pattern uses:\s*([^@\s]+(?:@[^\s]+)?) tried at index pos of s: whether
\* it matches, its group 1 and the index of the last character it takes.
\* Giving whitespace back from \s* never helps: the group cannot begin with it.
WorkflowPatternAt(s, pos) ==
    LET start == pos + 5 + SpaceRun(s, pos + 5)
        head  == HeadRun(s, start)
        at    == start + head
        rest  == IF at <= Len(s) /\ s[at] = "@" THEN NonSpaceRun(s, at + 1) ELSE 0
        last  == IF rest > 0 THEN at + rest ELSE at - 1
    IN  IF pos + 4 <= Len(s) /\ Slice(s, pos, pos + 4) = UsesLabel /\ head > 0
        THEN [matched |-> TRUE, group |-> Slice(s, start, last), last |-> last]
        ELSE [matched |-> FALSE, group |-> <<>>, last |-> pos]

\* re.findall with every index tried, the characters of a match included.
RECURSIVE ReFindAllOverlapping(_, _)
ReFindAllOverlapping(s, pos) ==
    IF pos > Len(s) THEN <<>>
    ELSE LET m == WorkflowPatternAt(s, pos)
         IN  IF m.matched THEN <<m.group>> \o ReFindAllOverlapping(s, pos + 1)
             ELSE ReFindAllOverlapping(s, pos + 1)

\* re.findall(pattern, content) from index pos on: the group of every match,
\* left to right, the search going on after the last character of a match.
RECURSIVE ReFindAll(_, _)
ReFindAll(s, pos) ==
    IF pos > Len(s) THEN <<>>
    ELSE LET m == WorkflowPatternAt(s, pos)
         IN  IF m.matched THEN <<m.group>> \o ReFindAll(s, m.last + 1)
             ELSE ReFindAll(s, pos + 1)

\* The for loop over the matches: strip, skip local references and empty
\* strings, append "uses: " + action.
RECURSIVE KeepExternal(_)
KeepExternal(matches) ==
    IF matches = <<>> THEN <<>>
    ELSE LET action == Strip(Head(matches))
         IN  IF is_local_workflow_reference(action) \/ action = <<>>
             THEN KeepExternal(Tail(matches))
             ELSE <<UsesLabel \o <<" ">> \o action>> \o KeepExternal(Tail(matches))

\* extract_actions_from_workflow(workflow_file); a missing file gives [].
extract_actions_from_workflow(exists, text) ==
    IF exists THEN KeepExternal(ReFindAll(text, 1)) ELSE <<>>

\* The pieces workflow texts are built from.
WorkflowPieces ==
    { <<"\n">>, UsesLabel, <<"@">>, <<".", "/">>, <<".", ".", "/">>,
      <<"a", "/", "b">>, <<"v", "1">> }

\* All concatenations of at most n workflow pieces.
RECURSIVE WorkflowConcats(_)
WorkflowConcats(n) ==
    IF n = 0 THEN { <<>> }
    ELSE LET shorter == WorkflowConcats(n - 1)
         IN  shorter \cup { s \o p : s \in shorter, p \in WorkflowPieces }

WorkflowTexts == WorkflowConcats(MaxWorkflowPieces)

WorkflowNotFoundMessage == "Error: Workflow file '{workflow_file}' not found"

\* What extract_actions_from_workflow leaves on sys.stderr.
extract_stderr(exists, err) ==
    IF exists THEN err ELSE err \cup {WorkflowNotFoundMessage}

\* A call extract_actions_from_workflow(workflow_file).
ExtractActions ==
    /\ pc = "none"
    /\ actions = None
    /\ actions' = extract_actions_from_workflow(workflow_file_exists, content)
    /\ stderr' = extract_stderr(workflow_file_exists, stderr)
    /\ UNCHANGED <<workflow_file_exists, content, parserVars, normalised, parsed_labelled,
                   mainVars, json_error_is_request_exception, attempt, events, outcome,
                   result>>

InitWorkflow ==
    /\ \/ workflow_file_exists = TRUE /\ content \in WorkflowTexts
       \/ workflow_file_exists = FALSE /\ content = <<>>
    /\ actions = None
    /\ raw = <<>>
    /\ parsed = Pending
    /\ parsed_labelled = Pending
    /\ normalised = <<>>
    /\ NoMain
    /\ ResolverIdle

NextWorkflow == ExtractActions

SpecWorkflow == InitWorkflow /\ [][NextWorkflow]_vars

-----------------------------------------------------------------------------
(* Release Resolver: get_latest_release. *)

\* One attempt more than the code allows.
max_retries_plus_one == 3 + 1

\* max_retries = 3
max_retries == 3

\* base_delay = 1
base_delay == 1

RECURSIVE Pow2(_)
Pow2(n) == IF n = 0 THEN 1 ELSE 2 * Pow2(n - 1)

Digits == {"0", "1", "2", "3", "4", "5", "6", "7", "8", "9"}

\* The number a non-empty string of digits writes.
RECURSIVE DigitsValue(_)
DigitsValue(s) ==
    IF s = <<>> THEN 0
    ELSE 10 * DigitsValue(Slice(s, 1, Len(s) - 1)) + (CharCode(s[Len(s)]) - 48)

\* int(s) for a string s: whitespace around it is ignored, a sign may come
\* first, the rest must be digits; anything else raises ValueError (ok = FALSE).
IntOfStr(s) ==
    LET t      == Strip(s)
        signed == t # <<>> /\ Head(t) \in {"+", "-"}
        digits == IF signed THEN Tail(t) ELSE t
    IN  IF digits # <<>> /\ \A i \in 1..Len(digits) : digits[i] \in Digits
        THEN [ok |-> TRUE,
              value |-> IF signed /\ Head(t) = "-"
                        THEN 0 - DigitsValue(digits) ELSE DigitsValue(digits)]
        ELSE [ok |-> FALSE, value |-> 0]

\* The delay of the exponential backoff: base_delay * (2**attempt).
backoff_delay(n) == base_delay * Pow2(n)

\* int(response.headers.get("Retry-After", base_delay * (2**attempt))).
retry_after(response, n) ==
    IF "Retry-After" \in DOMAIN response.headers
    THEN IntOfStr(response.headers["Retry-After"])
    ELSE [ok |-> TRUE, value |-> backoff_delay(n)]

\* response.raise_for_status() raises HTTPError for a 4xx or 5xx status.
raise_for_status_raises(status_code) == 400 <= status_code /\ status_code < 600

\* not r.get("draft", False)
IsPublished(r) == ~DictGet(r, "draft", FALSE)

\* x.get("published_at", "")
PublishedKey(x) == DictGet(x, "published_at", <<>>)

\* A maximum that keeps the last of several equal keys (>= in place of >).
RECURSIVE PyMaxLast(_, _)
PyMaxLast(items, best) ==
    IF items = <<>> THEN best
    ELSE IF ~StrGreater(PublishedKey(best), PublishedKey(Head(items)))
         THEN PyMaxLast(Tail(items), Head(items))
    ELSE PyMaxLast(Tail(items), best)

\* max(items, key=PublishedKey) for a non-empty list: the first item whose key
\* no other item's key exceeds.
RECURSIVE PyMax(_, _)
PyMax(items, best) ==
    IF items = <<>> THEN best
    ELSE IF StrGreater(PublishedKey(Head(items)), PublishedKey(best))
         THEN PyMax(Tail(items), Head(items))
    ELSE PyMax(Tail(items), best)

\* The selection without the draft filter.
select_latest_drafts_kept(releases) ==
    IF releases = <<>> THEN None
    ELSE DictGet(PyMax(Tail(releases), Head(releases)), "tag_name", None)

\* What get_latest_release returns once response.json() gave `releases`.
select_latest(releases) ==
    LET published_releases == SelectSeq(releases, IsPublished)
    IN  IF releases = <<>> THEN None
        ELSE IF published_releases = <<>> THEN None
        ELSE DictGet(PyMax(Tail(published_releases), Head(published_releases)),
                     "tag_name", None)

\* The handler's condition off by one: `attempt < max_retries`.
retries_remain_off_by_one(n) == n < max_retries

\* The condition `attempt < max_retries - 1` of the exception handler.
retries_remain(n) == n < max_retries - 1

(* What requests.get can do. *)

NoHeaders == [k \in {} |-> <<>>]

RetryAfterValues == { <<"7">>, <<"-", "1">>, <<"W", "e", "d">> }

Tags == { <<"v", "1">>, <<"v", "2">> }

PublishedAtValues == { <<"9">>, <<"1", "0">> }

\* A release of the listing: tag_name is always there, draft and published_at
\* may be missing.
Releases ==
    { ("tag_name" :> t) @@ d @@ p :
        t \in Tags,
        d \in {NoHeaders} \cup { ("draft" :> b) : b \in BOOLEAN },
        p \in {NoHeaders} \cup { ("published_at" :> v) : v \in PublishedAtValues } }

Listings == UNION { [1..n -> Releases] : n \in 0..MaxListing }

Response(status_code, headers, parseable, body) ==
    [kind |-> "response", status_code |-> status_code, headers |-> headers,
     parseable |-> parseable, body |-> body]

\* requests.get raised: a connection failure or a timeout.
TransportExceptions ==
    { [kind |-> "ConnectionError"], [kind |-> "Timeout"] }

RateLimitResponses ==
    { Response(429, h, FALSE, <<>>) :
        h \in {NoHeaders} \cup { ("Retry-After" :> v) : v \in RetryAfterValues } }

ErrorResponses == { Response(404, NoHeaders, FALSE, <<>>) }

UnparseableResponses == { Response(200, NoHeaders, FALSE, <<>>) }

ListingResponses == { Response(200, NoHeaders, TRUE, l) : l \in Listings }

GetEvent(o) == [type |-> "get", response |-> o]

SleepEvent(seconds) == [type |-> "sleep", seconds |-> seconds]

Running == outcome = "running" /\ attempt < max_retries

Return(value) ==
    /\ outcome' = "returned"
    /\ result' = value
    /\ UNCHANGED attempt

Raise ==
    /\ outcome' = "raised"
    /\ UNCHANGED <<attempt, result>>

RateLimitedMessage ==
    "Rate limited for {repo}. Retrying in {retry_after} seconds..."

RetryingMessage ==
    "Error fetching releases for {repo} (attempt {attempt + 1}/{max_retries}): {e}. Retrying in {delay} seconds..."

GaveUpMessage ==
    "Error fetching releases for {repo} after {max_retries} attempts: {e}"

\* The handler retrying at once, without time.sleep(delay).
HandleRequestExceptionNoSleep(o) ==
    IF retries_remain(attempt)
    THEN /\ events' = Append(events, GetEvent(o))
         /\ stderr' = stderr \cup {RetryingMessage}
         /\ attempt' = attempt + 1
         /\ UNCHANGED <<outcome, result>>
    ELSE /\ events' = Append(events, GetEvent(o))
         /\ stderr' = stderr \cup {GaveUpMessage}
         /\ Return(None)

\* The `except requests.exceptions.RequestException` handler, after the GET
\* that answered o.
HandleRequestException(o) ==
    IF retries_remain(attempt)
    THEN /\ events' = events \o <<GetEvent(o), SleepEvent(backoff_delay(attempt))>>
         /\ stderr' = stderr \cup {RetryingMessage}
         /\ attempt' = attempt + 1
         /\ UNCHANGED <<outcome, result>>
    ELSE /\ events' = Append(events, GetEvent(o))
         /\ stderr' = stderr \cup {GaveUpMessage}
         /\ Return(None)

\* An iteration whose requests.get raises one of the exceptions.
GetRaisesOneOf(exceptions) ==
    /\ Running
    /\ \E o \in exceptions :
         /\ HandleRequestException(o)
    /\ UNCHANGED <<callerVars, json_error_is_request_exception>>

\* An iteration whose response has status 429. int() raises ValueError for a
\* Retry-After that is no integer and time.sleep raises ValueError for a
\* negative one; neither is a RequestException.
GetRateLimitedBy(responses) ==
    /\ Running
    /\ \E o \in responses :
         /\ o.status_code = 429
         /\ LET ra == retry_after(o, attempt)
            IN  /\ stderr' = IF ra.ok THEN stderr \cup {RateLimitedMessage} ELSE stderr
                /\ IF ra.ok /\ ra.value >= 0
                   THEN /\ events' = events \o <<GetEvent(o), SleepEvent(ra.value)>>
                        /\ attempt' = attempt + 1
                        /\ UNCHANGED <<outcome, result>>
                   ELSE /\ events' = Append(events, GetEvent(o))
                        /\ Raise
    /\ UNCHANGED <<callerVars, json_error_is_request_exception>>

\* An iteration whose response makes raise_for_status raise.
GetHttpErrorOf(responses) ==
    /\ Running
    /\ \E o \in responses :
         /\ o.status_code # 429
         /\ raise_for_status_raises(o.status_code)
         /\ HandleRequestException(o)
    /\ UNCHANGED <<callerVars, json_error_is_request_exception>>

\* An iteration whose response.json() fails: a RequestException with a
\* requests whose JSONDecodeError is one, a plain ValueError otherwise.
GetUnparseableOf(responses) ==
    /\ Running
    /\ \E o \in responses :
         /\ o.status_code # 429
         /\ ~raise_for_status_raises(o.status_code)
         /\ ~o.parseable
         /\ IF json_error_is_request_exception
            THEN HandleRequestException(o)
            ELSE /\ events' = Append(events, GetEvent(o))
                 /\ Raise
                 /\ UNCHANGED stderr
    /\ UNCHANGED <<callerVars, json_error_is_request_exception>>

\* An iteration whose response carries a listing.
GetListingOf(responses) ==
    /\ Running
    /\ \E o \in responses :
         /\ o.status_code # 429
         /\ ~raise_for_status_raises(o.status_code)
         /\ o.parseable
         /\ events' = Append(events, GetEvent(o))
         /\ Return(select_latest(o.body))
    /\ UNCHANGED <<stderr, callerVars, json_error_is_request_exception>>

GetRaises == GetRaisesOneOf(TransportExceptions)

GetRateLimited == GetRateLimitedBy(RateLimitResponses)

GetHttpError == GetHttpErrorOf(ErrorResponses)

GetUnparseable == GetUnparseableOf(UnparseableResponses)

GetListing == GetListingOf(ListingResponses)

\* The for loop ran out: the final `return None`.
LoopExit ==
    /\ outcome = "running"
    /\ attempt >= max_retries
    /\ Return(None)
    /\ UNCHANGED <<events, stderr, callerVars, json_error_is_request_exception>>

\* A call get_latest_release(repo, github_token) has just entered its loop.
Init ==
    /\ raw = <<>>
    /\ parsed = Pending
    /\ parsed_labelled = Pending
    /\ normalised = <<>>
    /\ NoWorkflow
    /\ NoMain
    /\ json_error_is_request_exception \in BOOLEAN
    /\ attempt = 0
    /\ events = <<>>
    /\ outcome = "running"
    /\ result = None
    /\ stderr = {}

Next ==
    \/ GetRaises
    \/ GetRateLimited
    \/ GetHttpError
    \/ GetUnparseable
    \/ GetListing
    \/ LoopExit

Spec == Init /\ [][Next]_vars

-----------------------------------------------------------------------------
(* The command line: main and the process_* functions. *)

\* dict[key] = value on a dict kept as (key, value) pairs in insertion order:
\* a key already there keeps its place and takes the new value.
DictSet(d, key, value) ==
    IF \E i \in 1..Len(d) : d[i].key = key
    THEN [i \in 1..Len(d) |-> IF d[i].key = key
                              THEN [key |-> key, value |-> value] ELSE d[i]]
    ELSE Append(d, [key |-> key, value |-> value])

\* print(text): one line on sys.stdout.
Line(text) == [kind |-> "line", text |-> text, document |-> <<>>]

\* print(json.dumps(results, indent=2)): the serialized dict on sys.stdout.
JsonDump(d) == [kind |-> "json", text |-> <<>>, document |-> d]

RECURSIVE PrintAll(_)
PrintAll(list) ==
    IF list = <<>> THEN <<>> ELSE <<Line(Head(list))>> \o PrintAll(Tail(list))

Prompt == <<"Enter action strings (one per line, Ctrl+D to finish):">>

NoReleasesFound == <<"No releases found">>

NoActionsFound == <<"No actions found in workflow file">>

FileNotFound == <<"File '{file_path}' not found">>

\* f"Error: {e}"
ErrorResult(message) == <<"Error: ">> \o message

\* str(e) of the ValueError parse_action_string raised for action_string.
ParseErrorMessage(action_string) ==
    IF parse_action_string(action_string) = LocalError
    THEN <<"Local workflow reference not supported: ">> \o Normalise(action_string)
    ELSE <<"Invalid action format: ">> \o Normalise(action_string)

\* str(e) of the ValueError that left get_latest_release after the GET that
\* answered o: from int(), from time.sleep() or from response.json().
ResolverErrorMessage(o) ==
    IF o.status_code = 429
    THEN IF retry_after(o, 0).ok
         THEN <<"sleep length must be non-negative">>
         ELSE <<"invalid literal for int() with base 10: ">> \o o.headers["Retry-After"]
    ELSE <<"Expecting value: line 1 column 1 (char 0)">>

\* Python's truth of an optional string: neither None nor "".
Truthy(s) == s # None /\ s # <<>>

\* What process_action returns once get_latest_release has ended.
process_action_result ==
    IF outcome = "raised"
    THEN ErrorResult(ResolverErrorMessage(events[Len(events)].response))
    ELSE IF Truthy(result) THEN parsed.repo \o <<"@">> \o result
    ELSE NoReleasesFound

\* original_action of process_action_for_json once get_latest_release has ended.
original_action ==
    IF outcome = "raised" THEN Strip(raw)
    ELSE IF Truthy(parsed.version) THEN parsed.repo \o <<"@">> \o parsed.version
    ELSE parsed.repo

\* results.insert(0, result) in place of results.append(result).
PrependResult(list, text) == <<text>> \o list

\* results.append(result)
AppendResult(list, text) == Append(list, text)

\* The loop ended by a reference the parser rejected.
StopAfterRejection == "done"

\* The loop goes on after a reference the parser rejected.
AfterRejection == "loop"

\* What the caller does with what process_action (text mode) or
\* process_action_for_json (structured mode) returned for line number i.
Deliver(i, key, text, resolved) ==
    /\ returns' = Append(returns, [index |-> i,
                                   original_action |-> IF json_output THEN key ELSE None,
                                   result |-> text,
                                   resolved |-> resolved])
    /\ IF json_output
       THEN /\ mapping' = DictSet(mapping, key, text)
            /\ UNCHANGED <<results, stdout>>
       ELSE /\ results' = IF source \in {"file", "workflow"}
                          THEN AppendResult(results, text) ELSE results
            /\ stdout' = IF source = "workflow" THEN stdout
                         ELSE Append(stdout, Line(text))
            /\ UNCHANGED mapping

\* The references of the inputs.
Lines ==
    { <<"a", "/", "b", "@", "v", "1">>, <<" ", "v", "1">>, <<".", "/", "a", "/", "b">>,
      <<>>, <<"#", "a", "/", "b">> }

\* All lists of at most n references.
RECURSIVE LineLists(_)
LineLists(n) ==
    IF n = 0 THEN { <<>> }
    ELSE LET shorter == LineLists(n - 1)
         IN  shorter \cup { Append(l, x) : l \in shorter, x \in Lines }

InputLists == LineLists(MaxRefs)

\* A workflow text with one `uses:` line for each reference of the list.
RECURSIVE WorkflowOf(_)
WorkflowOf(list) ==
    IF list = <<>> THEN <<>>
    ELSE UsesLabel \o <<" ">> \o Head(list) \o <<"\n">> \o WorkflowOf(Tail(list))

\* What the GETs of a run of main are answered: a connection failure, a 429
\* without Retry-After or with a negative one, an empty listing or a listing
\* of one release.
ScriptedExceptions == { [kind |-> "ConnectionError"] }

ScriptedRateLimits ==
    { Response(429, NoHeaders, FALSE, <<>>),
      Response(429, ("Retry-After" :> <<"-", "1">>), FALSE, <<>>) }

ScriptedListings ==
    { Response(200, NoHeaders, TRUE, <<>>),
      Response(200, NoHeaders, TRUE, << ("tag_name" :> <<"v", "2">>) >>) }

\* The reference the loop takes next: files and standard input are read line
\* by line and stripped, args.action and the workflow's list are taken as is.
NextReference ==
    IF source \in {"action", "workflow"} THEN lines[index + 1]
    ELSE Strip(lines[index + 1])

\* The loop skips blank lines and, in a file, comments.
Skipped(line) ==
    \/ source \in {"file", "stdin", "piped"} /\ line = <<>>
    \/ source = "file" /\ StartsWith(line, <<"#">>)

\* process_stdin prints its prompt, in both output modes.
StartStdin ==
    /\ pc = "start"
    /\ source = "stdin"
    /\ stdout' = Append(stdout, Line(Prompt))
    /\ pc' = "loop"
    /\ UNCHANGED <<source, json_output, file_exists, lines, index, results, mapping, returns,
                   parserVars, normalised, parsed_labelled, workflowVars, resolverVars>>

\* Piped input and a single action go straight to their processing.
StartDirect ==
    /\ pc = "start"
    /\ source \in {"piped", "action"}
    /\ pc' = "loop"
    /\ UNCHANGED <<source, json_output, file_exists, lines, index, results, mapping, returns,
                   stdout, parserVars, normalised, parsed_labelled, workflowVars,
                   resolverVars>>

\* process_file / process_file_json open the file; main prints the dict of a
\* missing file in structured mode and nothing in text mode.
StartFile ==
    /\ pc = "start"
    /\ source = "file"
    /\ IF file_exists
       THEN /\ pc' = "loop"
            /\ UNCHANGED <<results, mapping, stdout>>
       ELSE /\ pc' = "done"
            /\ IF json_output
               THEN /\ mapping' = DictSet(mapping, <<"error">>, FileNotFound)
                    /\ stdout' = Append(stdout, JsonDump(mapping'))
                    /\ UNCHANGED results
               ELSE /\ results' = AppendResult(results, ErrorResult(FileNotFound))
                    /\ UNCHANGED <<mapping, stdout>>
    /\ UNCHANGED <<source, json_output, file_exists, lines, index, returns,
                   parserVars, normalised, parsed_labelled, workflowVars, resolverVars>>

\* process_workflow / process_workflow_json extract the references; without
\* any, main prints the "no actions" result.
StartWorkflow ==
    /\ pc = "start"
    /\ source = "workflow"
    /\ actions' = extract_actions_from_workflow(workflow_file_exists, content)
    /\ stderr' = extract_stderr(workflow_file_exists, stderr)
    /\ IF actions' = <<>>
       THEN /\ pc' = "done"
            /\ UNCHANGED lines
            /\ IF json_output
               THEN /\ mapping' = DictSet(mapping, <<"error">>, NoActionsFound)
                    /\ stdout' = Append(stdout, JsonDump(mapping'))
                    /\ UNCHANGED results
               ELSE /\ results' = AppendResult(results, NoActionsFound)
                    /\ stdout' = stdout \o PrintAll(results')
                    /\ UNCHANGED mapping
       ELSE /\ pc' = "loop"
            /\ lines' = actions'
            /\ UNCHANGED <<results, mapping, stdout>>
    /\ UNCHANGED <<source, json_output, file_exists, index, returns, workflow_file_exists,
                   content, parserVars, normalised, parsed_labelled,
                   json_error_is_request_exception, attempt, events, outcome, result>>

\* The loop passes over a blank line or a comment.
SkipLine ==
    /\ pc = "loop"
    /\ index < Len(lines)
    /\ Skipped(NextReference)
    /\ index' = index + 1
    /\ UNCHANGED <<source, json_output, file_exists, lines, pc, results, mapping, returns,
                   stdout, parserVars, normalised, parsed_labelled, workflowVars,
                   resolverVars>>

\* process_action / process_action_for_json on a reference the parser
\* rejects: the ValueError is caught and rendered, get_latest_release is not
\* called.
RejectLine ==
    /\ pc = "loop"
    /\ index < Len(lines)
    /\ ~Skipped(NextReference)
    /\ parse_action_string(NextReference).status # "ok"
    /\ index' = index + 1
    /\ raw' = NextReference
    /\ parsed' = parse_action_string(NextReference)
    /\ events' = <<>>
    /\ attempt' = 0
    /\ result' = None
    /\ outcome' = "idle"
    /\ Deliver(index + 1, Strip(NextReference),
               ErrorResult(ParseErrorMessage(NextReference)), <<"not called">>)
    /\ pc' = AfterRejection
    /\ UNCHANGED <<source, json_output, file_exists, lines, normalised, parsed_labelled,
                   workflowVars, json_error_is_request_exception, stderr>>

\* The attempt counter kept from the call before.
first_attempt_carried_over(previous) == previous

\* `for attempt in range(max_retries)`: attempt is a local of the call and
\* begins at 0, whatever value the call before left.
first_attempt(previous) == 0

\* process_action / process_action_for_json on a reference the parser
\* accepts: get_latest_release(repo, github_token) is called.
AcceptLine ==
    /\ pc = "loop"
    /\ index < Len(lines)
    /\ ~Skipped(NextReference)
    /\ parse_action_string(NextReference).status = "ok"
    /\ index' = index + 1
    /\ raw' = NextReference
    /\ parsed' = parse_action_string(NextReference)
    /\ events' = <<>>
    /\ attempt' = first_attempt(attempt)
    /\ result' = None
    /\ outcome' = "running"
    /\ pc' = "resolving"
    /\ UNCHANGED <<source, json_output, file_exists, lines, results, mapping, returns, stdout,
                   normalised, parsed_labelled, workflowVars,
                   json_error_is_request_exception, stderr>>

ResolveRaises == pc = "resolving" /\ GetRaisesOneOf(ScriptedExceptions)

ResolveRateLimited == pc = "resolving" /\ GetRateLimitedBy(ScriptedRateLimits)

ResolveListing == pc = "resolving" /\ GetListingOf(ScriptedListings)

ResolveLoopExit == pc = "resolving" /\ LoopExit

\* get_latest_release has ended: process_action renders what it returned or
\* the ValueError it raised, and the caller takes the result.
FinishReference ==
    /\ pc = "resolving"
    /\ outcome \in {"returned", "raised"}
    /\ Deliver(index, original_action, process_action_result,
               IF outcome = "raised" THEN <<"raised">> ELSE result)
    /\ outcome' = "idle"
    /\ pc' = "loop"
    /\ UNCHANGED <<source, json_output, file_exists, lines, index, parserVars, normalised,
                   parsed_labelled, workflowVars, json_error_is_request_exception, attempt,
                   events, result, stderr>>

\* The input is used up: the structured mode prints its dict, and main prints
\* the results process_workflow returned.
EndOfInput ==
    /\ pc = "loop"
    /\ index = Len(lines)
    /\ pc' = "done"
    /\ stdout' = IF json_output THEN Append(stdout, JsonDump(mapping))
                 ELSE IF source = "workflow" THEN stdout \o PrintAll(results)
                 ELSE stdout
    /\ UNCHANGED <<source, json_output, file_exists, lines, index, results, mapping, returns,
                   parserVars, normalised, parsed_labelled, workflowVars, resolverVars>>

InitMain ==
    /\ source \in {"action", "file", "workflow", "stdin", "piped"}
    /\ json_output \in BOOLEAN
    /\ \/ /\ source = "action"
          /\ lines \in { <<x>> : x \in Lines \ { <<>> } }
          /\ file_exists = FALSE
          /\ workflow_file_exists = FALSE
          /\ content = <<>>
       \/ /\ source = "file"
          /\ \/ file_exists = TRUE /\ lines \in InputLists
             \/ file_exists = FALSE /\ lines = <<>>
          /\ workflow_file_exists = FALSE
          /\ content = <<>>
       \/ /\ source = "workflow"
          /\ lines = <<>>
          /\ file_exists = FALSE
          /\ \/ workflow_file_exists = TRUE /\ content \in { WorkflowOf(l) : l \in InputLists }
             \/ workflow_file_exists = FALSE /\ content = <<>>
       \/ /\ source \in {"stdin", "piped"}
          /\ lines \in InputLists
          /\ file_exists = FALSE
          /\ workflow_file_exists = FALSE
          /\ content = <<>>
    /\ actions = None
    /\ index = 0
    /\ pc = "start"
    /\ results = <<>>
    /\ mapping = <<>>
    /\ returns = <<>>
    /\ stdout = <<>>
    /\ raw = <<>>
    /\ parsed = Pending
    /\ parsed_labelled = Pending
    /\ normalised = <<>>
    /\ ResolverIdle

NextMain ==
    \/ StartStdin
    \/ StartDirect
    \/ StartFile
    \/ StartWorkflow
    \/ SkipLine
    \/ RejectLine
    \/ AcceptLine
    \/ ResolveRaises
    \/ ResolveRateLimited
    \/ ResolveListing
    \/ ResolveLoopExit
    \/ FinishReference
    \/ EndOfInput

SpecMain == InitMain /\ [][NextMain]_vars

-----------------------------------------------------------------------------
(* Claims about the Release Resolver, checked under Spec. *)

IsGet(e) == e.type = "get"

IsSleep(e) == e.type = "sleep"

\* The responses and exceptions of the GETs issued so far, in order.
Gets == SelectSeq(events, IsGet)

Sleeps == SelectSeq(events, IsSleep)

Is2xx(o) == o.kind = "response" /\ o.status_code \in 200..299

Is429(o) == o.kind = "response" /\ o.status_code = 429

\* A connection failure, a timeout or a non-2xx status other than 429.
IsTransportFailure(o) ==
    \/ o.kind \in {"ConnectionError", "Timeout"}
    \/ (o.kind = "response" /\ o.status_code \notin (200..299) \cup {429})

IsListing(o) == Is2xx(o) /\ o.parseable

\* C1 as stated: at most 3 GETs are issued, and a call that ends without any
\* 2xx response has returned None.
C1_BoundedAttemptsThenNone ==
    /\ Len(Gets) <= 3
    /\ (outcome # "running" /\ \A i \in 1..Len(Gets) : ~Is2xx(Gets[i].response))
         => (outcome = "returned" /\ result = None)

FinalRateLimitSeconds(o) ==
    IF "Retry-After" \in DOMAIN o.headers
    THEN CASE o.headers["Retry-After"] = <<"7">> -> 7
           [] OTHER -> -1
    ELSE 4

C3_NoExceptionEscapes == outcome # "raised"

\* The key selection compares: published_at, the empty string when missing.
KeyOf(r) == IF "published_at" \in DOMAIN r THEN r["published_at"] ELSE <<>>

\* An entry counts as a draft only when it is flagged draft.
FlaggedDraft(r) == "draft" \in DOMAIN r /\ r["draft"] = TRUE

HasPublished(l) == \E i \in 1..Len(l) : ~FlaggedDraft(l[i])

\* The index selection is to pick in a listing with a non-draft entry: the
\* first non-draft entry whose published_at no non-draft entry exceeds.
LatestIndex(l) ==
    CHOOSE i \in 1..Len(l) :
        /\ ~FlaggedDraft(l[i])
        /\ \A j \in 1..Len(l) :
              ~FlaggedDraft(l[j]) =>
                  /\ ~StrGreater(KeyOf(l[j]), KeyOf(l[i]))
                  /\ j < i => KeyOf(l[j]) # KeyOf(l[i])

\* The tag selection is to return for listing l.
Selection(l) == IF HasPublished(l) THEN l[LatestIndex(l)]["tag_name"] ELSE None

\* C4: when GET number n+1 is the first answered with a listing, after n GETs
\* each answered 429 or failed in transport, the call has returned the
\* selection from that listing, has slept exactly n times, and that GET is the
\* last thing it did.
C4_FirstSuccessReturns ==
    \A n \in 0..2 :
        (/\ Len(Gets) >= n + 1
         /\ IsListing(Gets[n + 1].response)
         /\ \A k \in 1..n : Is429(Gets[k].response)
                             \/ IsTransportFailure(Gets[k].response))
        => /\ outcome = "returned"
           /\ result = Selection(Gets[n + 1].response.body)
           /\ Len(Sleeps) = n
           /\ Len(Gets) = n + 1
           /\ events[Len(events)] = Gets[n + 1]

\* A 429, then a transport failure, then a listing with a release.
C4_Witness ==
    /\ outcome = "returned"
    /\ result # None
    /\ Len(Gets) = 3
    /\ Is429(Gets[1].response)
    /\ IsTransportFailure(Gets[2].response)
    /\ IsListing(Gets[3].response)
    /\ Len(Sleeps) = 2

\* C5: a call that ended with every GET failed in transport issued exactly 3
\* GETs, slept after the first and the second only, and returned None.
C5_AllAttemptsFail ==
    (/\ outcome # "running"
     /\ \A i \in 1..Len(Gets) : IsTransportFailure(Gets[i].response))
    => /\ outcome = "returned"
       /\ result = None
       /\ Len(events) = 5
       /\ IsGet(events[1]) /\ IsSleep(events[2])
       /\ IsGet(events[3]) /\ IsSleep(events[4])
       /\ IsGet(events[5])

\* Three GETs failed, one of each kind, and the call has ended.
C5_Witness ==
    /\ outcome = "returned"
    /\ Len(Gets) = 3
    /\ \A i \in 1..3 : IsTransportFailure(Gets[i].response)
    /\ \E i \in 1..3 : Gets[i].response.kind = "Timeout"
    /\ \E i \in 1..3 : Gets[i].response.kind = "ConnectionError"
    /\ \E i \in 1..3 : Gets[i].response.kind = "response"

\* C6: from a listing with a non-draft entry the call returns the tag of the
\* first non-draft entry with the greatest published_at (missing counts as
\* ""), whatever the published_at of the draft entries.
C6_SelectsLatestPublished ==
    \A k \in 1..Len(events) :
        (/\ IsGet(events[k])
         /\ IsListing(events[k].response)
         /\ HasPublished(events[k].response.body))
        => LET l == events[k].response.body
           IN  /\ outcome = "returned"
               /\ result = l[LatestIndex(l)]["tag_name"]
               /\ ~FlaggedDraft(l[LatestIndex(l)])

\* The listing's draft has a later published_at than the release returned.
C6_Witness ==
    /\ outcome = "returned"
    /\ result # None
    /\ events # <<>>
    /\ IsListing(events[Len(events)].response)
    /\ LET l == events[Len(events)].response.body
       IN  \E i \in 1..Len(l) :
               /\ FlaggedDraft(l[i])
               /\ StrGreater(KeyOf(l[i]), KeyOf(l[LatestIndex(l)]))
               /\ l[i]["tag_name"] # result

\* C7: a listing that is empty or all drafts makes the call return None on
\* that attempt: nothing is raised, and no GET or sleep follows it.
C7_NoReleaseIsNone ==
    \A k \in 1..Len(events) :
        (/\ IsGet(events[k])
         /\ IsListing(events[k].response)
         /\ ~HasPublished(events[k].response.body))
        => /\ k = Len(events)
           /\ outcome = "returned"
           /\ result = None

\* A listing of two drafts was fetched after a retry.
C7_Witness ==
    /\ outcome = "returned"
    /\ result = None
    /\ Len(events) = 3
    /\ IsListing(events[3].response)
    /\ Len(events[3].response.body) = 2

-----------------------------------------------------------------------------
(* Claims about the Reference Parser, checked under SpecParse. *)

Whitespace == {" ", "\n", "\t", "\r"}

AllWhitespace(s) == \A i \in 1..Len(s) : s[i] \in Whitespace

NameChars == {"a", "b", "v", "1", "e", "s", "u", "-"}

\* r has the form owner/repo: two non-empty names joined by one "/".
IsOwnerRepo(r) ==
    \E k \in 2..(Len(r) - 1) :
        /\ r[k] = "/"
        /\ \A i \in 1..Len(r) : i # k => r[i] \in NameChars \cup {"."}
        /\ r[1] # "."

\* x is a version token: non-empty, no whitespace in it.
IsVersionToken(x) == x # <<>> /\ \A i \in 1..Len(x) : x[i] \notin Whitespace

\* The references of the claim inside s: s is whitespace, then core, then
\* whitespace, where core is s from index a + 1 to index e.
IsCore(s, a, e) ==
    /\ a < e
    /\ s[a + 1] \notin Whitespace
    /\ s[e] \notin Whitespace
    /\ AllWhitespace(SubSeq(s, 1, a))
    /\ AllWhitespace(SubSeq(s, e + 1, Len(s)))

\* core is r "@" x, split at index k, with r of the form owner/repo and x a
\* version token.
IsVersionedAt(core, k) ==
    /\ core[k] = "@"
    /\ IsOwnerRepo(SubSeq(core, 1, k - 1))
    /\ IsVersionToken(SubSeq(core, k + 1, Len(core)))

RepositorySegment(s) ==
    IF \E i \in 1..Len(s) : s[i] = "@"
    THEN SubSeq(s, 1, (CHOOSE i \in 1..Len(s) :
                           s[i] = "@" /\ \A j \in 1..(i - 1) : s[j] # "@") - 1)
    ELSE s

\* The text of s after its first "@" (s must hold one).
AfterFirstAt(s) ==
    SubSeq(s, Len(RepositorySegment(s)) + 2, Len(s))

HasAt(s) == \E i \in 1..Len(s) : s[i] = "@"

BeginsLocal(s) ==
    \/ (Len(s) >= 2 /\ SubSeq(s, 1, 2) = <<".", "/">>)
    \/ (Len(s) >= 3 /\ SubSeq(s, 1, 3) = <<".", ".", "/">>)

\* C9: a string that begins with ./ or ../ once trimmed and label-stripped is
\* rejected with the local-reference error, whatever else is wrong with it;
\* a string whose repository segment is empty is rejected with the
\* invalid-format error.
C9_ParseRejections ==
    parsed # Pending =>
        /\ BeginsLocal(Normalise(raw)) => parsed = LocalError
        /\ RepositorySegment(Normalise(raw)) = <<>> => parsed = FormatError

\* A local reference that the pattern would not match either was rejected as
\* a local reference.
C9_Witness ==
    /\ parsed = LocalError
    /\ HasAt(Normalise(raw))
    /\ AfterFirstAt(Normalise(raw)) = <<>>

\* C10 as stated: a trimmed, label-stripped, non-local string with a non-empty
\* repository segment always parses, to (text before the first "@", text
\* after it).
C10_Original ==
    (/\ parsed # Pending
     /\ ~BeginsLocal(Normalise(raw))
     /\ RepositorySegment(Normalise(raw)) # <<>>)
    => parsed = [status  |-> "ok",
                 repo    |-> RepositorySegment(Normalise(raw)),
                 version |-> IF HasAt(Normalise(raw))
                             THEN AfterFirstAt(Normalise(raw)) ELSE None]

\* The strings the pattern accepts: a non-empty repository segment and, when
\* there is an "@", a non-empty text after the first "@" with no line feed.
WellFormed(s) ==
    /\ RepositorySegment(s) # <<>>
    /\ HasAt(s) =>
          /\ AfterFirstAt(s) # <<>>
          /\ \A i \in 1..Len(AfterFirstAt(s)) : AfterFirstAt(s)[i] # "\n"

\* C10 (amended): a trimmed, label-stripped, non-local string parses exactly
\* when its repository segment is non-empty and, if it holds an "@", the text
\* after the first "@" is non-empty and free of line feeds; the result is
\* then (text before the first "@", text after it, later "@" included); every
\* other such string fails with the invalid-format error.
C10_SplitOnFirstAt ==
    (parsed # Pending /\ ~BeginsLocal(Normalise(raw))) =>
        IF WellFormed(Normalise(raw))
        THEN parsed = [status  |-> "ok",
                       repo    |-> RepositorySegment(Normalise(raw)),
                       version |-> IF HasAt(Normalise(raw))
                                   THEN AfterFirstAt(Normalise(raw)) ELSE None]
        ELSE parsed = FormatError

\* A string with two "@" has been parsed: the second one is in the version.
C10_Witness ==
    /\ parsed.status = "ok"
    /\ parsed.version # None
    /\ HasAt(parsed.version)

\* s begins with the label "uses:".
BeginsWithLabel(s) ==
    Len(s) >= 5 /\ SubSeq(s, 1, 5) = <<"u", "s", "e", "s", ":">>

\* s without the whitespace at its two ends.
Trimmed(s) ==
    IF AllWhitespace(s) THEN <<>>
    ELSE LET first == CHOOSE i \in 1..Len(s) :
                          s[i] \notin Whitespace /\ AllWhitespace(SubSeq(s, 1, i - 1))
             last  == CHOOSE i \in 1..Len(s) :
                          s[i] \notin Whitespace /\ AllWhitespace(SubSeq(s, i + 1, Len(s)))
         IN  SubSeq(s, first, last)

\* C11 as stated: the normalisation step applied twice gives what it gives
\* applied once.
C11_Original ==
    Len(normalised) = 2 => normalised[2] = normalised[1]

\* C11 (amended): the step applied twice gives what it gives applied once
\* exactly when the once-normalised string does not begin with "uses:" again;
\* a repeated label loses one "uses:" at each application.
C11_IdempotentButForRepeatedLabel ==
    Len(normalised) = 2 =>
        /\ (normalised[2] = normalised[1]) <=> ~BeginsWithLabel(normalised[1])
        /\ BeginsWithLabel(normalised[1]) =>
               normalised[2] = Trimmed(SubSeq(normalised[1], 6, Len(normalised[1])))

\* A labelled reference with whitespace around it was normalised twice.
C11_Witness ==
    /\ Len(normalised) = 2
    /\ normalised[2] = normalised[1]
    /\ normalised[1] # <<>>
    /\ raw # Trimmed(raw)
    /\ BeginsWithLabel(Trimmed(raw))
    /\ Len(normalised[1]) < Len(Trimmed(raw)) - 5

\* The outcomes a and b of two parses agree: the same pair, or two rejections.
SameOutcome(a, b) ==
    IF a.status = "ok" THEN b = a ELSE b.status \notin {"ok", "pending"}

\* C12 as stated: for s that does not start with "uses:", parsing
\* "uses: " + s gives the outcome of parsing s.
C12_Original ==
    (parsed # Pending /\ parsed_labelled # Pending /\ ~BeginsWithLabel(raw))
        => SameOutcome(parsed, parsed_labelled)

\* C12 (amended): for s that does not start with "uses:" once its surrounding
\* whitespace is trimmed, parsing "uses: " + s gives the outcome of parsing s.
C12_LabelRoundTrip ==
    (parsed # Pending /\ parsed_labelled # Pending /\ ~BeginsWithLabel(Trimmed(raw)))
        => SameOutcome(parsed, parsed_labelled)

\* A versioned reference was parsed with and without the label in front.
C12_Witness ==
    /\ parsed.status = "ok"
    /\ parsed.version # None
    /\ parsed_labelled = parsed
    /\ ~BeginsWithLabel(Trimmed(raw))

\* A "uses:" label stands at index p of the text c.
LabelAt(c, p) ==
    p + 4 <= Len(c) /\ SubSeq(c, p, p + 4) = <<"u", "s", "e", "s", ":">>

\* Index of the last character of the longest run of characters outside stop
\* that begins at index i of c (i - 1 when c[i] is in stop or past the end).
RunEnd(c, i, stop) ==
    CHOOSE e \in (i - 1)..Len(c) :
        /\ \A j \in i..e : c[j] \notin stop
        /\ e = Len(c) \/ c[e + 1] \in stop

\* Index of the first character after the label at p that is not whitespace.
TokenStart(c, p) ==
    CHOOSE i \in (p + 5)..(Len(c) + 1) :
        /\ \A j \in (p + 5)..(i - 1) : c[j] \in Whitespace
        /\ i = Len(c) + 1 \/ c[i] \notin Whitespace

\* The token after the label at p: everything up to the next whitespace.
WholeToken(c, p) ==
    SubSeq(c, TokenStart(c, p), RunEnd(c, TokenStart(c, p), Whitespace))

\* Index of the last character of what the scan pattern takes for the label
\* at p: a run without "@" and whitespace, then, when an "@" with a character
\* other than whitespace after it follows, everything up to the next whitespace.
PatternEnd(c, p) ==
    LET h == RunEnd(c, TokenStart(c, p), Whitespace \cup {"@"})
    IN  IF h + 2 <= Len(c) /\ c[h + 1] = "@" /\ c[h + 2] \notin Whitespace
        THEN RunEnd(c, h + 2, Whitespace)
        ELSE h

PatternToken(c, p) == SubSeq(c, TokenStart(c, p), PatternEnd(c, p))

\* The label at p has something to take: its token does not begin with "@"
\* and is not empty.
Takes(c, p) ==
    /\ LabelAt(c, p)
    /\ TokenStart(c, p) <= Len(c)
    /\ c[TokenStart(c, p)] # "@"

\* The labels among the first n indices of c that the scan matches: those with
\* something to take that lie outside what an earlier match took.
RECURSIVE MatchStarts(_, _)
MatchStarts(c, n) ==
    IF n = 0 THEN {}
    ELSE LET earlier == MatchStarts(c, n - 1)
         IN  IF Takes(c, n) /\ \A q \in earlier : PatternEnd(c, q) < n
             THEN earlier \cup {n}
             ELSE earlier

\* The place of p among the indices S, in increasing order.
Rank(S, p) == Cardinality({ q \in S : q <= p })

\* C13 as stated: the list returned holds, in document order, exactly one
\* entry "uses: <token>" for each "uses:" of the text whose token does not
\* begin with ./ or ../.
C13_Original ==
    (actions # None /\ workflow_file_exists) =>
        LET S == { p \in 1..Len(content) :
                     /\ LabelAt(content, p)
                     /\ WholeToken(content, p) # <<>>
                     /\ ~BeginsLocal(WholeToken(content, p)) }
        IN  /\ Len(actions) = Cardinality(S)
            /\ \A p \in S :
                   actions[Rank(S, p)] =
                       <<"u", "s", "e", "s", ":", " ">> \o WholeToken(content, p)

\* C13 (amended): the list returned holds, in document order, exactly one
\* entry "uses: <token>" for each match of the scan pattern whose token does
\* not begin with ./ or ../: a label followed by "@" or by nothing matches
\* nothing, an "@" with nothing after it is left out of the token, and a label
\* inside the text of a match is no match of its own.  No entry is a local
\* reference, and parse_action_string accepts every entry.
C13_ExtractsPatternMatches ==
    (actions # None /\ workflow_file_exists) =>
        LET S == { p \in MatchStarts(content, Len(content)) :
                     ~BeginsLocal(PatternToken(content, p)) }
        IN  /\ Len(actions) = Cardinality(S)
            /\ \A p \in S :
                   /\ actions[Rank(S, p)] =
                          <<"u", "s", "e", "s", ":", " ">> \o PatternToken(content, p)
                   /\ parse_action_string(actions[Rank(S, p)]).status = "ok"
                   /\ parse_action_string(actions[Rank(S, p)]).repo =
                          RepositorySegment(PatternToken(content, p))

\* A workflow text with two different references was scanned.
C13_Witness ==
    /\ workflow_file_exists
    /\ actions # None
    /\ Len(actions) = 2
    /\ actions[1] # actions[2]
    /\ actions[1] = <<"u", "s", "e", "s", ":", " ">> \o WholeToken(content, 1)

\* The zero-based attempt index of the GET recorded at index i of events.
AttemptOf(i) == Cardinality({ j \in 1..(i - 1) : IsGet(events[j]) })

\* Exactly one sleep follows the event at index i.
OneSleepAfter(i) ==
    /\ i + 1 <= Len(events) /\ IsSleep(events[i + 1])
    /\ ~(i + 2 <= Len(events) /\ IsSleep(events[i + 2]))

NoSleepAfter(i) == ~(i + 1 <= Len(events) /\ IsSleep(events[i + 1]))

\* 1, 2, 4 for the attempts 0, 1, 2.
ExponentialSeconds(n) == CASE n = 0 -> 1 [] n = 1 -> 2 [] OTHER -> 4

\* A request exception: a failure of the transport, a non-2xx status other
\* than 429, or a body whose decoding error is a RequestException.
IsRequestException(o) ==
    \/ IsTransportFailure(o)
    \/ (Is2xx(o) /\ ~o.parseable /\ json_error_is_request_exception)

\* C20 as stated: a 429 at attempt n is followed by exactly one sleep, of the
\* Retry-After header's seconds when the header is there and of 2^n without
\* it; a request exception at attempt n < 2 is followed by exactly one sleep of
\* 2^n, and one at attempt 2 by no sleep.
C20_SleepDurations ==
    \A i \in 1..Len(events) :
        IsGet(events[i]) =>
            LET o == events[i].response
                n == AttemptOf(i)
            IN  /\ Is429(o) =>
                       /\ OneSleepAfter(i)
                       /\ "Retry-After" \notin DOMAIN o.headers =>
                              events[i + 1].seconds = ExponentialSeconds(n)
                       /\ ("Retry-After" \in DOMAIN o.headers
                              /\ o.headers["Retry-After"] = <<"7">>) =>
                              events[i + 1].seconds = 7
                /\ (IsRequestException(o) /\ n < 2) =>
                       (OneSleepAfter(i) /\ events[i + 1].seconds = ExponentialSeconds(n))
                /\ (IsRequestException(o) /\ n = 2) => NoSleepAfter(i)

\* Line i of the input holds a reference: it is not blank and, in a file, no
\* comment.
IsReference(i) ==
    /\ Trimmed(lines[i]) # <<>>
    /\ ~(source = "file" /\ Trimmed(lines[i])[1] = "#")

\* The results returned so far, in the order of the calls.
ReturnedResults == [k \in 1..Len(returns) |-> returns[k].result]

\* The lines printed to the primary stream, the prompt of --stdin left out.
IsResultLine(e) == e.kind = "line" /\ e.text # Prompt

PrintedResults ==
    LET printed == SelectSeq(stdout, IsResultLine)
    IN  [k \in 1..Len(printed) |-> printed[k].text]

\* C14: references are taken in input order and one at a time: while the GETs
\* and sleeps of a reference go on, every reference before it has its result
\* and no later one was begun; in text mode the results are emitted in input
\* order, and in structured mode the keys are in the order in which their
\* references first came.
C14_InInputOrderOneAtATime ==
    /\ \A k \in 1..Len(returns) :
           /\ returns[k].index <= index
           /\ k < Len(returns) => returns[k].index < returns[k + 1].index
    /\ outcome = "running" =>
           /\ pc = "resolving"
           /\ index >= 1
           /\ raw = (IF source \in {"action", "workflow"}
                     THEN lines[index] ELSE Trimmed(lines[index]))
           /\ \A i \in 1..(index - 1) :
                  IsReference(i) => \E k \in 1..Len(returns) : returns[k].index = i
           /\ \A k \in 1..Len(returns) : returns[k].index < index
    /\ (source \in {"file", "stdin", "piped", "action"} /\ ~json_output) =>
           PrintedResults = ReturnedResults
    /\ (source = "workflow" /\ ~json_output /\ returns # <<>>) =>
           /\ results = ReturnedResults
           /\ pc = "done" => PrintedResults = ReturnedResults
    /\ json_output =>
           \A i, j \in 1..Len(mapping) :
               i < j => \E k \in 1..Len(returns) :
                           /\ returns[k].original_action = mapping[i].key
                           /\ \A m \in 1..k : returns[m].original_action # mapping[j].key

\* Two references were resolved with GETs, one after the other, and their
\* different results printed.
C14_Witness ==
    /\ pc = "done"
    /\ ~json_output
    /\ source = "workflow"
    /\ Len(returns) = 2
    /\ returns[1].resolved = None
    /\ returns[2].resolved = <<"v", "2">>
    /\ Len(events) = 3
    /\ PrintedResults = << <<"No releases found">>, <<"v", "1", "@", "v", "2">> >>

\* The result text begins with "Error: " and goes on.
IsErrorResult(text) == Len(text) >= 2 /\ text[1] = "Error: "

\* The parser rejects line i of the input.
Rejected(i) == parse_action_string(lines[i]).status \notin {"ok", "pending"}

\* C15: a reference the parser rejects gets an "Error: <message>" result of
\* its own, no GET is made for it, and the references after it are still
\* processed: when the run is over every reference has exactly one result.
C15_RejectionIsLocal ==
    /\ \A k \in 1..Len(returns) :
           Rejected(returns[k].index) =>
               /\ IsErrorResult(returns[k].result)
               /\ returns[k].result[2] \in {"Invalid action format: ",
                                            "Local workflow reference not supported: "}
               /\ returns[k].resolved = <<"not called">>
               /\ (k = Len(returns) /\ returns[k].index = index) => events = <<>>
    /\ (pc = "done" /\ (source = "file" => file_exists)
                    /\ (source = "workflow" => actions # <<>>)) =>
           \A i \in 1..Len(lines) :
               IsReference(i) =>
                   Cardinality({ k \in 1..Len(returns) : returns[k].index = i }) = 1

\* A rejected reference was followed by one that was resolved.
C15_Witness ==
    /\ pc = "done"
    /\ Len(lines) = 2
    /\ Len(returns) = 2
    /\ Rejected(1)
    /\ lines[1] = <<".", "/", "a", "/", "b">>
    /\ IsErrorResult(returns[1].result)
    /\ returns[2].resolved = <<"v", "2">>
    /\ events # <<>>

\* C16 as stated: the result is "Error: <message>" exactly when the parser
\* rejects the reference, "No releases found" exactly when the resolver
\* returns absent, and otherwise <repository>@<tag>.
C16_ThreeOutcomes ==
    \A k \in 1..Len(returns) :
        LET r == returns[k]
            p == parse_action_string(lines[r.index])
        IN  /\ IsErrorResult(r.result) <=> Rejected(r.index)
            /\ (r.result = <<"No releases found">>) <=> (r.resolved = None)
            /\ (~Rejected(r.index) /\ r.resolved # None) =>
                   r.result = p.repo \o <<"@">> \o r.resolved

\* C17 as stated: in structured mode nothing but the serialized mapping is
\* written to the primary stream.
C17_OnlyTheMapping ==
    json_output =>
        /\ \A i \in 1..Len(stdout) : stdout[i].kind = "json"
        /\ pc = "done" => stdout = << [kind |-> "json", text |-> <<>>, document |-> mapping] >>

\* The input file of the run is missing.
MissingInputFile ==
    \/ source = "file" /\ ~file_exists
    \/ source = "workflow" /\ ~workflow_file_exists

\* C18 as stated: a missing input file shows as exactly one error entry or
\* line in what the run emits, and no GET is made.
C18_MissingFileReported ==
    (pc = "done" /\ MissingInputFile) =>
        /\ Len(stdout) = 1
        /\ json_output =>
               (Len(stdout[1].document) = 1 /\ stdout[1].document[1].key = <<"error">>)
        /\ events = <<>>
        /\ returns = <<>>

\* The key of line i: repository@requestedVersion, the repository alone
\* without a version, the trimmed line when the parser rejects it.
ReconstructedKey(i) ==
    LET p == parse_action_string(lines[i])
    IN  IF Rejected(i) THEN Trimmed(lines[i])
        ELSE IF p.version = <<"None">> THEN p.repo
        ELSE p.repo \o <<"@">> \o p.version

\* C19 as stated: after a structured run the mapping holds, for every
\* processed reference, its reconstructed key with the outcome of that
\* reference as the value.
C19_KeyHoldsOwnOutcome ==
    (pc = "done" /\ json_output) =>
        \A k \in 1..Len(returns) :
            \E j \in 1..Len(mapping) :
                /\ mapping[j].key = ReconstructedKey(returns[k].index)
                /\ mapping[j].value = returns[k].result

\* The response or exception of the last GET of the call.
LastGet == Gets[Len(Gets)].response

\* C21: the retry budget is per call.  Whatever calls came before, a call
\* that has just begun is at attempt 0 with no result; its attempt counter
\* counts its own GETs only, of which there are at most 3; its first backoff
\* delay is 1; and what it returns is determined by its own responses: the
\* selection from the listing its last GET was answered, None without one.
C21_BudgetIsPerCall ==
    /\ (outcome = "running" /\ events = <<>>) => (attempt = 0 /\ result = <<"None">>)
    /\ outcome = "running" => attempt = Len(Gets)
    /\ Len(Gets) <= 3
    /\ (Len(events) >= 2 /\ IsSleep(events[2])
           /\ ~(Is429(events[1].response)
                   /\ "Retry-After" \in DOMAIN events[1].response.headers)) =>
           events[2].seconds = 1
    /\ outcome = "returned" =>
           /\ Len(Gets) >= 1
           /\ result = IF IsListing(LastGet) THEN Selection(LastGet.body) ELSE <<"None">>
    /\ outcome = "raised" => (Len(Gets) >= 1 /\ ~IsListing(LastGet))

\* After a call that used up its budget, the call for the second reference
\* failed twice, slept 1 and then 2, and found a release at its third attempt.
C21_Witness ==
    /\ pc = "resolving"
    /\ index = 2
    /\ Len(returns) = 1
    /\ returns[1].resolved = <<"None">>
    /\ "Error fetching releases for {repo} after {max_retries} attempts: {e}" \in stderr
    /\ outcome = "returned"
    /\ Len(Gets) = 3
    /\ events[2] = [type |-> "sleep", seconds |-> 1]
    /\ events[4] = [type |-> "sleep", seconds |-> 2]
    /\ result = <<"v", "2">>

====
